---- MODULE Spec2Model ----
(***************************************************************************)
(* A model of pycuber/cube.py: the Cube (a set of 26 Cuboids addressed by  *)
(* face-letter keys), Cube.__getitem__/__setitem__, and the rotation       *)
(* engine (_single_layer, _other_rotations, perform_step, perform_algo).   *)
(*                                                                         *)
(* Strings of face letters ("LDB", "RFLB") are sequences of one-letter     *)
(* strings.  A dict / FrozenDict is a function; a Python set is a set.     *)
(* A Square is its colour (Square.__eq__ compares colours only).           *)
(***************************************************************************)
EXTENDS Integers, Sequences, FiniteSets, TLC

\* ------------------------------------------------------------------ bounds
\* number of perform_algo calls the caller makes on the Cube
MaxAlgos == 1

\* number of cube[key], cube[key] = value and Cube(cuboids) calls the
\* caller makes
MaxCalls == 1

\* number of whole-cube moves the caller performs one by one
MaxTurns == 5

\* ----------------------------------------------------------------- helpers
Range(f) == {f[x] : x \in DOMAIN f}

\* seq[::-1]
Reverse(seq) == [i \in 1..Len(seq) |-> seq[Len(seq) + 1 - i]]

\* seq.index(x), 0-based; -1 stands for the ValueError of a missing element
Index(seq, x) ==
    IF x \in Range(seq)
    THEN (CHOOSE i \in 1..Len(seq) : seq[i] = x /\ \A j \in 1..(i - 1) : seq[j] # x) - 1
    ELSE -1

\* "".join(d): the keys of a dict as a string.  The order of the letters is
\* the dict's iteration order; every reader of such a string in cube.py
\* (permutations() in Cuboid.__and__, `in` in at_face, len() in __init__)
\* is insensitive to it, so one fixed order is used.
Join(keys) == SelectSeq(<<"L", "U", "F", "D", "R", "B">>, LAMBDA f : f \in keys)

\* an arbitrary iteration order of a Python set
RECURSIVE IterOrder(_)
IterOrder(S) ==
    IF S = {} THEN <<>>
    ELSE LET x == CHOOSE y \in S : TRUE IN <<x>> \o IterOrder(S \ {x})

\* ------------------------------------------------------------------- Step
\* Step (pycuber/algorithm.py) as the typed triple of the move description.
Faces == {"L", "U", "F", "D", "R", "B"}
SingleFaces == {"L", "U", "F", "D", "R", "B", "M", "E", "S"}
OtherFaces == {"x", "y", "z", "r", "l", "u", "d", "f", "b"}

Step(face, inv, dbl) == [face |-> face, is_inverse |-> inv, is_180 |-> dbl]

Steps == {Step(f, i, d) : f \in SingleFaces \cup OtherFaces, i \in BOOLEAN, d \in BOOLEAN}

\* Step("L'"), Step("R"), Step("U2"): a face letter and an optional suffix
StepOf(name) ==
    Step(name[1], "'" \in Range(name), "2" \in Range(name))

\* Step.inverse(): the same turn in the other direction
StepInverse(s) == [s EXCEPT !.is_inverse = ~s.is_inverse]

\* Step * 2: the quarter turn doubled, a 180-degree turn of the same face
StepTimes2(s) == [face |-> s.face, is_inverse |-> FALSE, is_180 |-> TRUE]

\* ----------------------------------------------------------------- Cuboid
\* Cuboid.__init__: facings, children (a set of Squares), location
Cuboid(tp, children, kwargs) ==
    [type |-> tp, location |-> Join(DOMAIN kwargs), facings |-> kwargs,
     children |-> children]

ValueError == [type |-> "ValueError", location |-> <<>>, facings |-> <<>>, children |-> {}]

Centre(children, kwargs) ==
    IF Cardinality(DOMAIN kwargs) # 1 THEN ValueError ELSE Cuboid("centre", children, kwargs)

Edge(children, kwargs) ==
    IF Cardinality(DOMAIN kwargs) # 2 THEN ValueError ELSE Cuboid("edge", children, kwargs)

Corner(children, kwargs) ==
    IF Cardinality(DOMAIN kwargs) # 3 THEN ValueError ELSE Cuboid("corner", children, kwargs)

\* the class table {"centre": Centre, "edge": Edge, "corner": Corner}[type](...)
ClassOf(tp, children, kwargs) ==
    CASE tp = "centre" -> Centre(children, kwargs)
      [] tp = "edge"   -> Edge(children, kwargs)
      [] tp = "corner" -> Corner(children, kwargs)

\* Cuboid.__and__ with a str compared as a set of letters: set(self.facings) == set(another)
AndStrAsSet(cuboid, letters, n) == DOMAIN cuboid.facings = letters

\* Cuboid.__and__ with a str: tuple(self.facings) in permutations(another, len(another)).
\* The str is given by its letters and its length n: the keys of facings are
\* one of its permutations iff they are its letters and there are n of them.
AndStr(cuboid, letters, n) ==
    /\ DOMAIN cuboid.facings = letters
    /\ Cardinality(letters) = n

\* Cuboid.__and__ with a Cuboid: the two key views are equal
AndCuboid(cuboid, another) == DOMAIN cuboid.facings = DOMAIN another.facings

\* Cuboid.copy(): a new Cuboid of the same class with the same facings
CuboidCopy(c) == ClassOf(c.type, c.children, c.facings)

\* ------------------------------------------------------------------- Cube
colours == ("L" :> "red") @@ ("U" :> "yellow") @@ ("F" :> "green") @@
           ("D" :> "white") @@ ("R" :> "orange") @@ ("B" :> "blue")

\* {loc[i]: Square(colours[loc[i]]) for i in range(len(loc))}
RECURSIVE Colouring(_)
Colouring(loc) ==
    IF loc = <<>> THEN <<>>
    ELSE Colouring(Tail(loc)) @@ (Head(loc) :> colours[Head(loc)])

InitLocs == <<
    <<"L","D","B">>, <<"L","D","F">>, <<"L","U","B">>, <<"L","U","F">>,
    <<"R","D","B">>, <<"R","D","F">>, <<"R","U","B">>, <<"R","U","F">>,
    <<"L","B">>, <<"L","F">>, <<"L","U">>, <<"L","D">>, <<"D","B">>, <<"D","F">>,
    <<"U","B">>, <<"U","F">>, <<"R","B">>, <<"R","F">>, <<"R","U">>, <<"R","D">>,
    <<"L">>, <<"R">>, <<"U">>, <<"D">>, <<"F">>, <<"B">> >>

\* Cube.__init__ on a set of Cuboids: one child per cubie, its class chosen
\* by len(cubie.location), its children the Squares of its facings
CubeOf(cuboids) ==
    {ClassOf(CASE Len(cubie.location) = 3 -> "corner"
               [] Len(cubie.location) = 2 -> "edge"
               [] Len(cubie.location) = 1 -> "centre",
             Range(cubie.facings), cubie.facings) : cubie \in cuboids}

\* Cube.__init__ without cuboids: the solved Cube
SolvedCube ==
    CubeOf({LET loc == InitLocs[i]
            IN  CASE Len(loc) = 3 -> Corner({}, Colouring(loc))
                  [] Len(loc) = 2 -> Edge({}, Colouring(loc))
                  [] OTHER        -> Centre({}, Colouring(loc))
            : i \in 1..Len(InitLocs)})

KeyError == [type |-> "KeyError", location |-> <<>>, facings |-> <<>>, children |-> {}]

\* what a call that returns nothing, or raises, leaves as its value
None == [type |-> "None", location |-> <<>>, facings |-> <<>>, children |-> {}]

\* Cube.__getitem__: the first child with child & key, else KeyError
GetItem(ch, key) ==
    LET letters == Range(key)
        n == Len(key)
        found == {child \in ch : AndStr(child, letters, n)}
    IN  IF found # {} THEN CHOOSE child \in found : TRUE ELSE KeyError

\* the outcome of a mutating call: the children afterwards and the exception raised
Outcome(ch, exc) == [children |-> ch, raised |-> exc]

\* isinstance(cubie, Cuboid), for an object told by its kind
IsCuboid(cubie) == cubie.type \in {"centre", "edge", "corner"}

\* Cube.__init__(cuboids), the argument given as [is_set, items]: nothing or
\* an empty collection gives the solved Cube; a set gives one child per
\* member, or ValueError if a member is no Cuboid; any other collection
\* passes the isinstance test of line 244 by and leaves children empty.
\* Nothing counts the pieces or looks at their locations.
CubeInit(cuboids) ==
    IF cuboids.items = {} THEN Outcome(SolvedCube, "none")
    ELSE IF ~cuboids.is_set THEN Outcome({}, "none")
    ELSE IF \E cubie \in cuboids.items : ~IsCuboid(cubie) THEN Outcome({}, "ValueError")
    ELSE Outcome(CubeOf(cuboids.items), "none")

\* Cube.__setitem__ without line 308: the old entry stays in the set
SetItemNoRemove(ch, key, value) ==
    LET q == GetItem(ch, key) IN
    IF q = KeyError THEN Outcome(ch, "KeyError")
    ELSE IF q.type # value.type THEN Outcome(ch, "ValueError")
    ELSE IF ~AndCuboid(q, value) THEN Outcome(ch, "ValueError")
    ELSE Outcome(ch \cup
                 {[q EXCEPT !.facings = value.facings,
                            !.children = Range(value.facings)]}, "none")

\* Cube.__setitem__ without line 310: the entry keeps the Squares it had
SetItemStaleChildren(ch, key, value) ==
    LET q == GetItem(ch, key) IN
    IF q = KeyError THEN Outcome(ch, "KeyError")
    ELSE IF q.type # value.type THEN Outcome(ch, "ValueError")
    ELSE IF ~AndCuboid(q, value) THEN Outcome(ch, "ValueError")
    ELSE Outcome((ch \ {q}) \cup {[q EXCEPT !.facings = value.facings]}, "none")

\* Cube.__setitem__ with the two checks of lines 297-306 made after the
\* assignments of lines 307-311
SetItemCheckLate(ch, key, value) ==
    LET q == GetItem(ch, key) IN
    IF q = KeyError THEN Outcome(ch, "KeyError")
    ELSE LET new == (ch \ {q}) \cup
                        {[q EXCEPT !.facings = value.facings,
                                   !.children = Range(value.facings)]}
         IN  IF q.type # value.type THEN Outcome(new, "ValueError")
             ELSE IF ~AndCuboid(q, value) THEN Outcome(new, "ValueError")
             ELSE Outcome(new, "none")

\* Cube.__setitem__
SetItem(ch, key, value) ==
    LET q == GetItem(ch, key) IN
    IF q = KeyError THEN Outcome(ch, "KeyError")
    ELSE IF q.type # value.type THEN Outcome(ch, "ValueError")
    ELSE IF ~AndCuboid(q, value) THEN Outcome(ch, "ValueError")
    ELSE Outcome((ch \ {q}) \cup
                 {[q EXCEPT !.facings = value.facings,
                            !.children = Range(value.facings)]}, "none")

\* Cube.__iter__: the 26 keys in their fixed order
IterLocs == <<
    <<"B","D","L">>, <<"F","D","L">>, <<"U","L","F">>, <<"U","L","B">>,
    <<"R","U","F">>, <<"R","U","B">>, <<"R","D","B">>, <<"R","D","F">>,
    <<"L","U">>, <<"F","U">>, <<"R","U">>, <<"B","U">>, <<"L","F">>, <<"L","B">>,
    <<"R","F">>, <<"R","B">>, <<"F","D">>, <<"L","D">>, <<"B","D">>, <<"R","D">>,
    <<"F">>, <<"U">>, <<"R">>, <<"L">>, <<"D">>, <<"B">> >>

CubeIter(ch) == [i \in 1..Len(IterLocs) |-> <<IterLocs[i], GetItem(ch, IterLocs[i])>>]

\* Cube.__eq__: dict(self) == dict(another); Cuboids compare by facings
CubeEq(a, b) ==
    \A i \in 1..Len(IterLocs) :
        GetItem(a, IterLocs[i]).facings = GetItem(b, IterLocs[i]).facings

\* Cube.at_face
AtFace(ch, face) == {child \in ch : face \in Range(child.location)}

\* Cube.has_colour: the children whose own children hold a Square of colour
HasColour(ch, colour) == {child \in ch : colour \in child.children}

\* -------------------------------------------------------------- get_face
\* the ordering table with the entry of "U" a copy of the entry of "D"
OrderingCopied(face) ==
    CASE face = "L" -> <<"U","D","B","F">>
      [] face = "R" -> <<"U","D","F","B">>
      [] face = "U" -> <<"F","B","L","R">>
      [] face = "D" -> <<"F","B","L","R">>
      [] face = "F" -> <<"U","D","L","R">>
      [] face = "B" -> <<"U","D","R","L">>

\* the ordering table of get_face: the neighbours at the top and bottom row,
\* then those at the left and right column
Ordering(face) ==
    CASE face = "L" -> <<"U","D","B","F">>
      [] face = "R" -> <<"U","D","F","B">>
      [] face = "U" -> <<"B","F","L","R">>
      [] face = "D" -> <<"F","B","L","R">>
      [] face = "F" -> <<"U","D","L","R">>
      [] face = "B" -> <<"U","D","R","L">>

\* loc after the loop of lines 404-414, or the exception the loop or the
\* indexing of line 415 raises: ValueError for a face that is not in the
\* ordering, TypeError for a coordinate that is still None
Cell(row, col, exc) == [row |-> row, col |-> col, raised |-> exc]

\* loc with the two coordinates written the other way round: the first
\* pair of the ordering picks the column, the second the row
CellOfSwapped(cuboid, face) ==
    LET ordering == Ordering(face)
        others == DOMAIN cuboid.facings \ {face}
        rows == {f \in others : Index(ordering, f) \in {2, 3}}
        cols == {f \in others : Index(ordering, f) \in {0, 1}}
        at(fs) == (Index(ordering, CHOOSE f \in fs : TRUE) % 2) * 2
    IN  IF cuboid.type = "centre" THEN Cell(1, 1, "none")
        ELSE IF \E f \in others : Index(ordering, f) < 0 THEN Cell(0, 0, "ValueError")
        ELSE IF cuboid.type = "edge"
             THEN IF rows # {} THEN Cell(at(rows), 1, "none") ELSE Cell(1, at(cols), "none")
        ELSE IF rows = {} \/ cols = {} THEN Cell(0, 0, "TypeError")
        ELSE Cell(at(rows), at(cols), "none")

\* loc for one Cuboid of at_face(face)
CellOf(cuboid, face) ==
    LET ordering == Ordering(face)
        others == DOMAIN cuboid.facings \ {face}
        rows == {f \in others : Index(ordering, f) \in {0, 1}}
        cols == {f \in others : Index(ordering, f) \in {2, 3}}
        at(fs) == (Index(ordering, CHOOSE f \in fs : TRUE) % 2) * 2
    IN  IF cuboid.type = "centre" THEN Cell(1, 1, "none")
        ELSE IF \E f \in others : Index(ordering, f) < 0 THEN Cell(0, 0, "ValueError")
        ELSE IF cuboid.type = "edge"
             THEN IF rows # {} THEN Cell(at(rows), 1, "none") ELSE Cell(1, at(cols), "none")
        ELSE IF rows = {} \/ cols = {} THEN Cell(0, 0, "TypeError")
        ELSE Cell(at(rows), at(cols), "none")

\* the loop of lines 402-415 over the pieces of at_face(face)
RECURSIVE FillFace(_, _, _)
FillFace(grid, face, order) ==
    IF order = <<>> THEN [value |-> grid, raised |-> "none"]
    ELSE LET cuboid == Head(order)
             loc == CellOf(cuboid, face)
         IN  IF loc.raised # "none" THEN [value |-> grid, raised |-> loc.raised]
             ELSE FillFace([grid EXCEPT ![loc.row][loc.col] = cuboid.facings[face]],
                           face, Tail(order))

\* [[None] * 3, [None] * 3, [None] * 3], rows and columns numbered from 0
EmptyGrid ==
    LET row == (0 :> "None") @@ (1 :> "None") @@ (2 :> "None")
    IN  (0 :> row) @@ (1 :> row) @@ (2 :> row)

\* Cube.get_face for a face letter: the 3 x 3 grid of the Squares on face
GetFace(ch, face) == FillFace(EmptyGrid, face, IterOrder(AtFace(ch, face)))

\* ------------------------------------------------------------ _single_layer
\* the movement table with the entry of "L" a copy of the entry of "U"
MovementTableCopied(face) ==
    CASE face = "U" -> <<"R","F","L","B">>
      [] face = "D" -> <<"L","F","R","B">>
      [] face = "R" -> <<"F","U","B","D">>
      [] face = "L" -> <<"R","F","L","B">>
      [] face = "F" -> <<"U","R","D","L">>
      [] face = "B" -> <<"U","L","D","R">>
      [] face = "M" -> << <<"L","R">>, <<"F","D","B","U">> >>
      [] face = "S" -> << <<"F","B">>, <<"U","R","D","L">> >>
      [] face = "E" -> << <<"U","D">>, <<"L","F","R","B">> >>

\* the movement table: a cycle of four faces, or (slice, cycle) for M S E
MovementTable(face) ==
    CASE face = "U" -> <<"R","F","L","B">>
      [] face = "D" -> <<"L","F","R","B">>
      [] face = "R" -> <<"F","U","B","D">>
      [] face = "L" -> <<"F","D","B","U">>
      [] face = "F" -> <<"U","R","D","L">>
      [] face = "B" -> <<"U","L","D","R">>
      [] face = "M" -> << <<"L","R">>, <<"F","D","B","U">> >>
      [] face = "S" -> << <<"F","B">>, <<"U","R","D","L">> >>
      [] face = "E" -> << <<"U","D">>, <<"L","F","R","B">> >>

\* lines 435-436 without the reversal of line 436
MovementNoInverse(step) ==
    LET m0 == MovementTable(step.face)
    IN  IF Len(m0) = 2 THEN m0[2] ELSE m0

\* lines 435-436: unpack the slice entry, reverse the cycle for an inverse step
Movement(step) ==
    LET m0 == MovementTable(step.face)
        m1 == IF Len(m0) = 2 THEN m0[2] ELSE m0
    IN  IF step.is_inverse THEN Reverse(m1) ELSE m1

\* lines 437-443 with the slice taken as all that is off its first
\* bounding face only
ToMoveOneBound(ch, step) ==
    IF step.face \notin {"M", "S", "E"}
    THEN {CuboidCopy(c) : c \in AtFace(ch, step.face)}
    ELSE LET slice_ == MovementTable(step.face)[1]
         IN  {CuboidCopy(c) : c \in ch \ AtFace(ch, slice_[1])}

\* lines 437-443: copies of the Cuboids of the turned layer
ToMove(ch, step) ==
    IF step.face \notin {"M", "S", "E"}
    THEN {CuboidCopy(c) : c \in AtFace(ch, step.face)}
    ELSE LET slice_ == MovementTable(step.face)[1]
         IN  {CuboidCopy(c) : c \in (ch \ AtFace(ch, slice_[1])) \ AtFace(ch, slice_[2])}

\* line 448 without `% 4`: an index past the end of movement raises
NewFaceNoWrap(movement, step, f) ==
    IF f # step.face
    THEN LET i == Index(movement, f)
             j == i + (IF step.is_180 THEN 1 ELSE 0) + 1
         IN  IF i < 0 \/ j >= 4 THEN "ValueError" ELSE movement[j + 1]
    ELSE f

\* line 448 without is_180: a double turn moves a single position
NewFaceNoDouble(movement, step, f) ==
    IF f # step.face
    THEN LET i == Index(movement, f)
         IN  IF i < 0 THEN "ValueError" ELSE movement[((i + 1) % 4) + 1]
    ELSE f

\* line 448 with an inverse double turn taken as three positions
NewFaceInverseDouble(movement, step, f) ==
    IF f # step.face
    THEN LET i == Index(movement, f)
             d == IF step.is_180 THEN (IF step.is_inverse THEN 2 ELSE 1) ELSE 0
         IN  IF i < 0 THEN "ValueError" ELSE movement[((i + d + 1) % 4) + 1]
    ELSE f

\* line 448: the face a sticker on face f moves to; "ValueError" when
\* movement.index(f) finds no f
NewFace(movement, step, f) ==
    IF f # step.face
    THEN LET i == Index(movement, f)
         IN  IF i < 0 THEN "ValueError"
             ELSE movement[((i + (IF step.is_180 THEN 1 ELSE 0) + 1) % 4) + 1]
    ELSE f

\* lines 446-450: the loop over the facings still to visit, filling `new`;
\* a later assignment to the same key replaces an earlier one
RECURSIVE NewOver(_, _, _, _)
NewOver(movement, step, cuboid, keys) ==
    IF keys = {} THEN <<>>
    ELSE LET f == CHOOSE x \in keys : TRUE
         IN  NewOver(movement, step, cuboid, keys \ {f})
                 @@ (NewFace(movement, step, f) :> cuboid.facings[f])

\* lines 445-450: the dict `new` of one moved Cuboid
NewFacings(movement, step, cuboid) ==
    NewOver(movement, step, cuboid, DOMAIN cuboid.facings)

\* lines 451-459: the Cuboid built from `new`
NewCuboid(movement, step, cuboid) ==
    LET new == NewFacings(movement, step, cuboid)
    IN  IF "ValueError" \in DOMAIN new THEN ValueError
        ELSE ClassOf(cuboid.type, Range(new), new)

\* lines 444-460 over the Cuboids themselves instead of the copies of line
\* 438: each Cuboid is read as the commits made so far have left it
RECURSIVE CommitNoCopy(_, _, _, _)
CommitNoCopy(ch, movement, step, order) ==
    IF order = <<>> THEN Outcome(ch, "none")
    ELSE LET new_cuboid == NewCuboid(movement, step, GetItem(ch, Head(order).location))
         IN  IF new_cuboid = ValueError THEN Outcome(ch, "ValueError")
             ELSE LET out == SetItem(ch, new_cuboid.location, new_cuboid)
                  IN  IF out.raised # "none" THEN out
                      ELSE CommitNoCopy(out.children, movement, step, Tail(order))

\* lines 444-460: the loop over to_move, in the order `order`; an exception
\* ends the loop and leaves the commits made so far
RECURSIVE Commit(_, _, _, _)
Commit(ch, movement, step, order) ==
    IF order = <<>> THEN Outcome(ch, "none")
    ELSE LET new_cuboid == NewCuboid(movement, step, Head(order))
         IN  IF new_cuboid = ValueError THEN Outcome(ch, "ValueError")
             ELSE LET out == SetItem(ch, new_cuboid.location, new_cuboid)
                  IN  IF out.raised # "none" THEN out
                      ELSE Commit(out.children, movement, step, Tail(order))

\* Cube._single_layer
SingleLayer(ch, step) ==
    Commit(ch, Movement(step), step, IterOrder(ToMove(ch, step)))

\* --------------------------------------------------------- _other_rotations
\* the table of lines 469-479 with "z" written as F S U'
OtherTableTypo(face) ==
    CASE face = "x" -> << <<"L","'">>, <<"M","'">>, <<"R">> >>
      [] face = "y" -> << <<"U">>, <<"E","'">>, <<"D","'">> >>
      [] face = "z" -> << <<"F">>, <<"S">>, <<"U","'">> >>
      [] face = "r" -> << <<"R">>, <<"M","'">> >>
      [] face = "l" -> << <<"L">>, <<"M">> >>
      [] face = "u" -> << <<"U">>, <<"E","'">> >>
      [] face = "d" -> << <<"D">>, <<"E">> >>
      [] face = "f" -> << <<"F">>, <<"S">> >>
      [] face = "b" -> << <<"B">>, <<"S","'">> >>

\* the table of lines 469-479 with "y" written as U E D'
OtherTableSlice(face) ==
    CASE face = "x" -> << <<"L","'">>, <<"M","'">>, <<"R">> >>
      [] face = "y" -> << <<"U">>, <<"E">>, <<"D","'">> >>
      [] face = "z" -> << <<"F">>, <<"S">>, <<"B","'">> >>
      [] face = "r" -> << <<"R">>, <<"M","'">> >>
      [] face = "l" -> << <<"L">>, <<"M">> >>
      [] face = "u" -> << <<"U">>, <<"E","'">> >>
      [] face = "d" -> << <<"D">>, <<"E">> >>
      [] face = "f" -> << <<"F">>, <<"S">> >>
      [] face = "b" -> << <<"B">>, <<"S","'">> >>

\* the table of lines 469-479
OtherTable(face) ==
    CASE face = "x" -> << <<"L","'">>, <<"M","'">>, <<"R">> >>
      [] face = "y" -> << <<"U">>, <<"E","'">>, <<"D","'">> >>
      [] face = "z" -> << <<"F">>, <<"S">>, <<"B","'">> >>
      [] face = "r" -> << <<"R">>, <<"M","'">> >>
      [] face = "l" -> << <<"L">>, <<"M">> >>
      [] face = "u" -> << <<"U">>, <<"E","'">> >>
      [] face = "d" -> << <<"D">>, <<"E">> >>
      [] face = "f" -> << <<"F">>, <<"S">> >>
      [] face = "b" -> << <<"B">>, <<"S","'">> >>

\* lines 481-483 without the test of step.is_inverse
SubStepNoInverse(step, s) ==
    LET step_ == StepOf(s)
    IN  IF step.is_180 THEN StepTimes2(step_)
        ELSE step_

\* lines 481-483: the sub-step performed for table entry s
SubStep(step, s) ==
    LET step_ == StepOf(s)
    IN  IF step.is_inverse THEN StepInverse(step_)
        ELSE IF step.is_180 THEN StepTimes2(step_)
        ELSE step_

\* lines 480-484: the loop over the table's sub-steps
RECURSIVE OtherLoop(_, _, _)
OtherLoop(ch, step, movement) ==
    IF movement = <<>> THEN Outcome(ch, "none")
    ELSE LET out == SingleLayer(ch, SubStep(step, Head(movement)))
         IN  IF out.raised # "none" THEN out
             ELSE OtherLoop(out.children, step, Tail(movement))

\* Cube._other_rotations
OtherRotations(ch, step) == OtherLoop(ch, step, OtherTable(step.face))

\* Cube.perform_step
PerformStep(ch, step) ==
    IF step.face \in SingleFaces THEN SingleLayer(ch, step)
    ELSE OtherRotations(ch, step)

\* ------------------------------------------------------------ perform_algo
\* Algo (pycuber/algorithm.py): a finite sequence of Steps
RECURSIVE Repeat(_, _)
Repeat(a, n) == IF n = 0 THEN <<>> ELSE a \o Repeat(a, n - 1)

\* R U R' U', six times
SexyMove6 ==
    Repeat(<<Step("R", FALSE, FALSE), Step("U", FALSE, FALSE),
             Step("R", TRUE, FALSE), Step("U", TRUE, FALSE)>>, 6)

\* the designators in the order of perform_step's docstring
FaceOrder == <<"L", "R", "U", "D", "F", "B", "l", "r", "u", "d", "f", "b",
               "M", "S", "E", "x", "y", "z">>

\* every designator once with the given flags
Pass(inv, dbl) == [i \in 1..Len(FaceOrder) |-> Step(FaceOrder[i], inv, dbl)]

\* every designator with every combination of flags
AllSteps == Pass(FALSE, FALSE) \o Pass(TRUE, TRUE) \o Pass(FALSE, TRUE) \o Pass(TRUE, FALSE)

\* a short scramble
Scramble == <<Step("F", FALSE, FALSE), Step("M", TRUE, FALSE), Step("u", FALSE, FALSE),
              Step("D", FALSE, TRUE), Step("x", FALSE, FALSE), Step("b", TRUE, FALSE),
              Step("E", FALSE, FALSE), Step("L", TRUE, FALSE)>>

\* the algorithms the caller may hand to perform_algo
Algos == {SexyMove6, AllSteps, Scramble}

\* Cube.perform_algo, all steps in order; an exception ends the loop
RECURSIVE PerformAlgo(_, _)
PerformAlgo(ch, a) ==
    IF a = <<>> THEN Outcome(ch, "none")
    ELSE LET out == PerformStep(ch, Head(a))
         IN  IF out.raised # "none" THEN out
             ELSE PerformAlgo(out.children, Tail(a))

\* ------------------------------------------------------------------ state
VARIABLES
    children,   \* Cube.children
    raised,     \* the exception the last call raised, "none" if it returned
    algo,       \* the Algo perform_algo is iterating over
    pc,         \* perform_algo's position in algo; 0 when no call is active
    nalgos,     \* perform_algo calls made so far
    result,     \* what the last direct call returned, None if it raised
    ncalls      \* calls other than perform_algo made so far

vars == <<children, raised, algo, pc, nalgos, result, ncalls>>

\* Cube(): the solved Cube, no call made yet
Init ==
    /\ children = SolvedCube
    /\ raised = "none"
    /\ algo = <<>>
    /\ pc = 0
    /\ nalgos = 0
    /\ result = None
    /\ ncalls = 0

\* cube.perform_algo(a) is called: line 507
AlgoBegin ==
    /\ pc = 0
    /\ nalgos < MaxAlgos
    /\ \E a \in Algos : algo' = a
    /\ pc' = 1
    /\ nalgos' = nalgos + 1
    /\ raised' = "none"
    /\ result' = None
    /\ UNCHANGED <<children, ncalls>>

\* the loop of lines 508-509 leaving out the last step of algo
AlgoStepShort ==
    /\ pc >= 1
    /\ pc <= Len(algo)
    /\ LET out == IF pc < Len(algo) THEN PerformStep(children, algo[pc])
                  ELSE Outcome(children, "none")
       IN  /\ children' = out.children
           /\ raised' = out.raised
           /\ pc' = IF out.raised = "none" THEN pc + 1 ELSE 0
    /\ UNCHANGED <<algo, nalgos, result, ncalls>>

\* one iteration of the loop of lines 508-509: self.perform_step(step)
AlgoStep ==
    /\ pc >= 1
    /\ pc <= Len(algo)
    /\ LET out == PerformStep(children, algo[pc])
       IN  /\ children' = out.children
           /\ raised' = out.raised
           /\ pc' = IF out.raised = "none" THEN pc + 1 ELSE 0
    /\ UNCHANGED <<algo, nalgos, result, ncalls>>

\* line 510: return self
AlgoReturn ==
    /\ pc = Len(algo) + 1
    /\ pc' = 0
    /\ UNCHANGED <<children, raised, algo, nalgos, result, ncalls>>

Next ==
    \/ AlgoBegin
    \/ AlgoStep
    \/ AlgoReturn

Spec == Init /\ [][Next]_vars

\* ------------------------------------------------- direct calls on a Cube
\* the Cuboids a caller passes to cube[key] = value
Values == {
    Edge({}, ("U" :> "red") @@ ("F" :> "blue")),
    Edge({}, ("U" :> "red") @@ ("R" :> "blue")),
    Corner({}, ("U" :> "green") @@ ("R" :> "red") @@ ("F" :> "yellow")),
    Centre({}, ("U" :> "white")) }

\* the keys a caller passes: keys of __iter__, other orderings of their
\* letters, and strings that name no location
Keys == {
    <<"F", "U">>, <<"U", "F">>, <<"R", "U", "F">>, <<"F", "R", "U">>, <<"D">>,
    <<"U", "D">>, <<"U", "U">>, <<"U", "F", "D">>, <<"U", "F", "R", "L">>, <<>> }

\* cube[key] = value is called and returns or raises: lines 293-311
DoSetItem ==
    /\ pc = 0
    /\ ncalls < MaxCalls
    /\ \E key \in Keys, value \in Values :
          LET out == SetItem(children, key, value)
          IN  /\ children' = out.children
              /\ raised' = out.raised
    /\ result' = None
    /\ ncalls' = ncalls + 1
    /\ UNCHANGED <<algo, pc, nalgos>>

\* cube[key] is called and returns or raises: lines 284-291
DoGetItem ==
    /\ pc = 0
    /\ ncalls < MaxCalls
    /\ \E key \in Keys :
          LET child == GetItem(children, key)
          IN  IF child = KeyError
              THEN raised' = "KeyError" /\ result' = None
              ELSE raised' = "none" /\ result' = child
    /\ ncalls' = ncalls + 1
    /\ UNCHANGED <<children, algo, pc, nalgos>>

\* a member of a caller's collection that is no Cuboid
NoCuboid == [type |-> "str", location |-> <<>>, facings |-> <<>>, children |-> {}]

\* the collections a caller passes to Cube(cuboids): the 26 pieces of the
\* solved Cube, all but the one at UF, those 26 and a second piece at UF,
\* a centre alone, a piece on the opposite faces U and D, the 26 pieces
\* and a str, the 26 pieces in a list, and the empty set
Supplied ==
    LET solved == SolvedCube
        uf == GetItem(solved, <<"U", "F">>)
        set(items) == [is_set |-> TRUE, items |-> items]
    IN  { set(solved),
          set(solved \ {uf}),
          set(solved \cup {Edge({}, ("U" :> "red") @@ ("F" :> "blue"))}),
          set({Centre({}, ("U" :> "yellow"))}),
          set({Edge({}, ("U" :> "yellow") @@ ("D" :> "white"))}),
          set(solved \cup {NoCuboid}),
          [is_set |-> FALSE, items |-> solved],
          set({}) }

\* cube = Cube(cuboids) is called: the caller goes on with the new Cube if
\* the constructor returns, and keeps the Cube it had if it raises
DoConstruct ==
    /\ pc = 0
    /\ ncalls < MaxCalls
    /\ \E cuboids \in Supplied :
          LET out == CubeInit(cuboids)
          IN  /\ children' = IF out.raised = "none" THEN out.children ELSE children
              /\ raised' = out.raised
    /\ result' = None
    /\ ncalls' = ncalls + 1
    /\ UNCHANGED <<algo, pc, nalgos>>

\* the whole-cube moves x, y, z: plain, inverse and double
Rotations == {Step(f, inv, dbl) : f \in {"x", "y", "z"},
                                  inv \in BOOLEAN, dbl \in BOOLEAN} \
             {Step(f, TRUE, TRUE) : f \in {"x", "y", "z"}}

\* cube.perform_step(step) is called with a whole-cube move: lines 487-500
DoPerformStep ==
    /\ pc = 0
    /\ ncalls < MaxTurns
    /\ \E step \in Rotations :
          LET out == PerformStep(children, step)
          IN  /\ children' = out.children
              /\ raised' = out.raised
    /\ result' = None
    /\ ncalls' = ncalls + 1
    /\ UNCHANGED <<algo, pc, nalgos>>

NextApi ==
    \/ AlgoBegin
    \/ AlgoStep
    \/ AlgoReturn
    \/ DoSetItem
    \/ DoGetItem

SpecApi == Init /\ [][NextApi]_vars

NextNew ==
    \/ AlgoBegin
    \/ AlgoStep
    \/ AlgoReturn
    \/ DoConstruct

SpecNew == Init /\ [][NextNew]_vars

NextTurn == DoPerformStep

SpecTurn == Init /\ [][NextTurn]_vars

\* ------------------------------------------------------------ properties
\* the step perform_algo performed last
LastStep == IF pc >= 2 THEN algo[pc - 1] ELSE Step("-", FALSE, FALSE)

\* the call returned and left a Cube equal to ch
Gives(out, ch) == out.raised = "none" /\ CubeEq(out.children, ch)

\* the Cube after step is performed n times in a row
RECURSIVE Times(_, _, _)
Times(ch, step, n) ==
    IF n = 0 THEN Outcome(ch, "none")
    ELSE LET out == PerformStep(ch, step)
         IN  IF out.raised # "none" THEN out ELSE Times(out.children, step, n - 1)

\* the number of stickers of colour col on the Cube
ColourCount(ch, col) ==
    Cardinality({cf \in {<<c, f>> : c \in ch, f \in Faces} :
                    cf[2] \in DOMAIN cf[1].facings /\ cf[1].facings[cf[2]] = col})

Colours == Range(colours)

\* each of the 26 keys is matched by exactly one piece, of the kind the
\* solved Cube has there, and the 26 pieces are pairwise distinct
LocationsOK(ch) ==
    LET solved == SolvedCube IN
    /\ \A i \in 1..Len(IterLocs) :
          /\ Cardinality({c \in ch : AndStr(c, Range(IterLocs[i]), Len(IterLocs[i]))}) = 1
          /\ GetItem(ch, IterLocs[i]).type = GetItem(solved, IterLocs[i]).type
    /\ Cardinality({GetItem(ch, IterLocs[i]) : i \in 1..Len(IterLocs)}) = Len(IterLocs)
    /\ Cardinality(ch) = Len(IterLocs)

\* C1: in every reachable state, and after any further move with any flags,
\* each of the 26 location keys is matched by exactly one piece, the 26
\* pieces returned are pairwise distinct, and the kind stored at each key is
\* the kind stored there in the solved Cube
C1_LocationsKept ==
    /\ raised = "none"
    /\ LocationsOK(children)
    /\ \A step \in Steps :
          LET out == PerformStep(children, step)
          IN  out.raised = "none" /\ LocationsOK(out.children)

C1_Witness ==
    /\ algo = AllSteps
    /\ LastStep.face \in OtherFaces /\ LastStep.is_inverse /\ LastStep.is_180
    /\ ~CubeEq(children, SolvedCube)
    /\ LocationsOK(children)

\* C2: a move never changes how many stickers of each colour the Cube holds
C2_ColoursConserved ==
    [][\A col \in Colours : ColourCount(children', col) = ColourCount(children, col)]_vars

C2_Witness ==
    /\ pc >= 2
    /\ LastStep.face \in SingleFaces
    /\ ~CubeEq(children, SolvedCube)
    /\ \A col \in Colours : ColourCount(children, col) = 9

\* the outcome of performing s1 and then s2
Then(ch, s1, s2) ==
    LET out == PerformStep(ch, s1)
    IN  IF out.raised # "none" THEN out ELSE PerformStep(out.children, s2)

Turn(X) == Step(X, FALSE, FALSE)
TurnInv(X) == Step(X, TRUE, FALSE)
TurnDouble(X) == Step(X, FALSE, TRUE)
TurnBoth(X) == Step(X, TRUE, TRUE)

\* the Cube is not the solved one and perform_algo has performed a step
Scrambled == pc >= 2 /\ raised = "none" /\ ~CubeEq(children, SolvedCube)

\* C3: a quarter turn of an outer layer, clockwise or inverse, performed four
\* times in a row gives back the Cube it started from
C3_QuarterTurnOrder4 ==
    \A X \in Faces :
        /\ Gives(Times(children, Turn(X), 4), children)
        /\ Gives(Times(children, TurnInv(X), 4), children)

C3_Witness ==
    /\ Scrambled
    /\ \A X \in Faces :
          /\ ~Gives(Times(children, Turn(X), 1), children)
          /\ ~Gives(Times(children, Turn(X), 2), children)
          /\ ~Gives(Times(children, Turn(X), 3), children)
          /\ Gives(Times(children, Turn(X), 4), children)

\* C4: a quarter turn of an outer layer followed by its inverse, and the
\* inverse followed by the quarter turn, give back the Cube they started from
C4_TurnThenInverse ==
    \A X \in Faces :
        /\ Gives(Then(children, Turn(X), TurnInv(X)), children)
        /\ Gives(Then(children, TurnInv(X), Turn(X)), children)

C4_Witness ==
    /\ Scrambled
    /\ \A X \in Faces :
          /\ ~Gives(PerformStep(children, Turn(X)), children)
          /\ ~Gives(PerformStep(children, TurnInv(X)), children)
          /\ Gives(Then(children, Turn(X), TurnInv(X)), children)

\* C5: a quarter turn of an outer layer performed twice gives the Cube that
\* the double turn of that layer gives
C5_TwiceIsDouble ==
    \A X \in Faces :
        LET twice == Times(children, Turn(X), 2)
        IN  /\ twice.raised = "none"
            /\ Gives(PerformStep(children, TurnDouble(X)), twice.children)

C5_Witness ==
    /\ Scrambled
    /\ \A X \in Faces :
          LET dbl == PerformStep(children, TurnDouble(X))
          IN  /\ dbl.raised = "none"
              /\ ~CubeEq(dbl.children, children)
              /\ ~Gives(PerformStep(children, Turn(X)), dbl.children)
              /\ Gives(Times(children, Turn(X), 2), dbl.children)

OppositePairs == {<<"L", "R">>, <<"U", "D">>, <<"F", "B">>}

\* C6: moves of two opposite outer layers, with any flags, give the same
\* Cube in either order
C6_OppositeLayersCommute ==
    \A pair \in OppositePairs : \A i1, d1, i2, d2 \in BOOLEAN :
        LET a == Step(pair[1], i1, d1)
            b == Step(pair[2], i2, d2)
            ab == Then(children, a, b)
        IN  /\ ab.raised = "none"
            /\ Gives(Then(children, b, a), ab.children)

\* a state where L R is R L, both differ from L and from R alone, and the
\* adjacent layers L and U do not commute
C6_Witness ==
    /\ Scrambled
    /\ LET lr == Then(children, Turn("L"), Turn("R"))
       IN  /\ Gives(Then(children, Turn("R"), Turn("L")), lr.children)
           /\ ~Gives(PerformStep(children, Turn("L")), lr.children)
           /\ ~Gives(PerformStep(children, Turn("R")), lr.children)
    /\ ~Gives(Then(children, Turn("L"), Turn("U")),
              Then(children, Turn("U"), Turn("L")).children)

\* C7: a wide or whole-cube move with both the inverse and the double flag
\* gives the Cube that the move with the double flag alone gives
C7_OtherBothFlagsIsDouble ==
    \A W \in OtherFaces :
        LET dbl == PerformStep(children, TurnDouble(W))
        IN  /\ dbl.raised = "none"
            /\ Gives(PerformStep(children, TurnBoth(W)), dbl.children)

\* C8: a single-layer or slice move with both the double and the inverse
\* flag gives the Cube that the move with the double flag alone gives
C8_SingleBothFlagsIsDouble ==
    \A X \in SingleFaces :
        LET dbl == PerformStep(children, TurnDouble(X))
        IN  /\ dbl.raised = "none"
            /\ Gives(PerformStep(children, TurnBoth(X)), dbl.children)

C8_Witness ==
    /\ Scrambled
    /\ \A X \in SingleFaces :
          LET both == PerformStep(children, TurnBoth(X))
          IN  /\ both.raised = "none"
              /\ ~CubeEq(both.children, children)
              /\ ~Gives(PerformStep(children, TurnInv(X)), both.children)
              /\ Gives(PerformStep(children, TurnDouble(X)), both.children)

\* C9: an unflagged wide or whole-cube move performed four times in a row
\* gives back the Cube it started from
C9_OtherOrder4 ==
    \A W \in OtherFaces : Gives(Times(children, Turn(W), 4), children)

C9_Witness ==
    /\ Scrambled
    /\ LastStep.face \in OtherFaces
    /\ \A W \in OtherFaces :
          /\ ~Gives(Times(children, Turn(W), 1), children)
          /\ ~Gives(Times(children, Turn(W), 2), children)
          /\ ~Gives(Times(children, Turn(W), 3), children)
          /\ Gives(Times(children, Turn(W), 4), children)

\* C10: perform_algo of R U R' U' six times, called on the solved Cube, has
\* returned to a Cube equal to the solved Cube when its loop is over
C10_SexyMoveSixTimes ==
    (nalgos = 1 /\ algo = SexyMove6 /\ pc = Len(algo) + 1) =>
        (raised = "none" /\ CubeEq(children, SolvedCube))

\* the loop is over, and five repetitions alone do not solve the Cube
C10_Witness ==
    /\ nalgos = 1 /\ algo = SexyMove6 /\ pc = Len(algo) + 1
    /\ CubeEq(children, SolvedCube)
    /\ ~Gives(PerformAlgo(SolvedCube, SubSeq(SexyMove6, 1, 20)), SolvedCube)

\* the key names a location: it is an ordering of the letters of one of the
\* 26 keys of __iter__
Canonical(key) ==
    \E i \in 1..Len(IterLocs) :
        Range(key) = Range(IterLocs[i]) /\ Len(key) = Len(IterLocs[i])

\* the 26 keys of __iter__ and the keys the caller passes
AllKeys == Range(IterLocs) \cup Keys

\* value is not a legal replacement at key: another kind than the piece
\* there, or other faces than the letters of key
Mismatch(ch, key, value) ==
    \/ value.type # GetItem(ch, key).type
    \/ DOMAIN value.facings # Range(key)

\* C11: in every reachable state, cube[key] = value with a value of another
\* kind than the piece at key, or on other faces than the letters of key,
\* raises ValueError and leaves every piece of the Cube as it was
C11_SetItemRejects ==
    \A key \in AllKeys : \A value \in Values :
        (Canonical(key) /\ Mismatch(children, key, value)) =>
            SetItem(children, key, value) = Outcome(children, "ValueError")

\* a rejected cube[key] = value has been made, and an accepted one would
\* have changed the Cube
C11_Witness ==
    /\ ncalls = 1 /\ raised = "ValueError"
    /\ LocationsOK(children)
    /\ \E key \in Keys : \E value \in Values :
          /\ Canonical(key) /\ ~Mismatch(children, key, value)
          /\ SetItem(children, key, value).raised = "none"
          /\ SetItem(children, key, value).children # children

\* all strings of length n over the six face letters
RECURSIVE Strings(_)
Strings(n) ==
    IF n = 0 THEN {<<>>}
    ELSE {<<f>> \o str : f \in Faces, str \in Strings(n - 1)}

\* C12: in every reachable state, cube[key] raises KeyError for every key
\* that is not an ordering of the letters of one of the 26 locations, and
\* returns the one piece lying on exactly the faces of the key for every key
\* that is; a call that raised KeyError has left the Cube as it was
C12_GetItemByLocation ==
    /\ \A key \in Strings(0) \cup Strings(1) \cup Strings(2) \cup Strings(3) \cup Keys :
          LET child == GetItem(children, key)
          IN  IF Canonical(key)
              THEN /\ child \in children
                   /\ DOMAIN child.facings = Range(key)
                   /\ \A c \in children : DOMAIN c.facings = Range(key) => c = child
              ELSE child = KeyError
    /\ (nalgos = 0 /\ ncalls = 1 /\ raised = "KeyError") =>
          (children = SolvedCube /\ result = None)

\* cube["UD"] has raised KeyError, and cube["FU"] would return the piece
\* that cube["UF"] returns
C12_Witness ==
    /\ ncalls = 1 /\ raised = "KeyError" /\ result = None
    /\ GetItem(children, <<"U", "D">>) = KeyError
    /\ GetItem(children, <<"F", "U">>) \in children
    /\ GetItem(children, <<"F", "U">>) = GetItem(children, <<"U", "F">>)

\* C13: Cube(cuboids) raises for every collection that is not exactly one
\* piece for each of the 26 locations, so every Cube the caller holds has
\* one piece of the right kind at each of the 26 keys and no other piece
C13_ConstructorRejects == LocationsOK(children)

\* column col of a grid, top to bottom
Column(grid, col) == <<grid[0][col], grid[1][col], grid[2][col]>>

\* C14: in every reachable state, after a clockwise R the right column of
\* get_face("U") is, row for row, the right column get_face("F") had before
C14_RightTurnLiftsFront ==
    LET out == PerformStep(children, Turn("R"))
    IN  /\ out.raised = "none"
        /\ Column(GetFace(out.children, "U").value, 2) =
              Column(GetFace(children, "F").value, 2)

\* a scrambled state whose F column has three colours, differs from the U
\* column and from its own reverse, and is the U column after R
C14_Witness ==
    /\ Scrambled
    /\ LET front == Column(GetFace(children, "F").value, 2)
           up == Column(GetFace(children, "U").value, 2)
       IN  /\ Cardinality(Range(front)) = 3
           /\ front # up
           /\ Reverse(front) # up
           /\ Column(GetFace(PerformStep(children, Turn("R")).children, "U").value, 2) = front

\* C15: in every reachable state, x then y then x' gives the Cube that z gives
C15_ConjugateIsZ ==
    LET z == PerformStep(children, Turn("z"))
    IN  /\ z.raised = "none"
        /\ Gives(PerformAlgo(children, <<Turn("x"), Turn("y"), TurnInv("x")>>), z.children)

\* a scrambled state where x y x' is z and is none of z', z2, y, and where
\* x y alone and y alone are not z
C15_Witness ==
    /\ Scrambled
    /\ LET xyx == PerformAlgo(children, <<Turn("x"), Turn("y"), TurnInv("x")>>)
       IN  /\ Gives(PerformStep(children, Turn("z")), xyx.children)
           /\ ~Gives(PerformStep(children, TurnInv("z")), xyx.children)
           /\ ~Gives(PerformStep(children, TurnDouble("z")), xyx.children)
           /\ ~Gives(PerformStep(children, Turn("y")), xyx.children)
           /\ ~Gives(PerformAlgo(children, <<Turn("x"), Turn("y")>>), xyx.children)
           /\ ~CubeEq(xyx.children, children)

\* the pieces a move of layer X is to leave alone: those off face X for an
\* outer layer, those on either bounding face for a slice
Unaffected(ch, X) ==
    CASE X = "M" -> {c \in ch : DOMAIN c.facings \cap {"L", "R"} # {}}
      [] X = "S" -> {c \in ch : DOMAIN c.facings \cap {"F", "B"} # {}}
      [] X = "E" -> {c \in ch : DOMAIN c.facings \cap {"U", "D"} # {}}
      [] OTHER   -> {c \in ch : X \notin DOMAIN c.facings}

\* C16: in every reachable state a single-layer or slice move, with any
\* flags, leaves each piece outside its layer with the facings it had
C16_MoveFrame ==
    \A X \in SingleFaces : \A inv, dbl \in BOOLEAN :
        LET out == PerformStep(children, Step(X, inv, dbl))
        IN  /\ out.raised = "none"
            /\ \A c \in Unaffected(children, X) :
                  GetItem(out.children, c.location).facings = c.facings

\* a scrambled state where each quarter turn changes at least four pieces
\* of its layer and the 17 or 18 pieces outside it stay
C16_Witness ==
    /\ Scrambled
    /\ \A X \in SingleFaces :
          LET out == PerformStep(children, Turn(X))
              rest == Unaffected(children, X)
          IN  /\ Cardinality(rest) = IF X \in Faces THEN 17 ELSE 18
              /\ rest \subseteq out.children
              /\ Cardinality(children \ out.children) >= 4

\* orders in which the loop of line 444 may meet the Cuboids of to_move:
\* one order, every rotation of it, and its reverse
Orders(to_move) ==
    LET base == IterOrder(to_move)
        n == Len(base)
    IN  {SubSeq(base, k + 1, n) \o SubSeq(base, 1, k) : k \in 0..(n - 1)}
            \cup {Reverse(base)}

\* the Cube with every Cuboid of to_move committed at once, each entry
\* written from the Cube as it was before the move
AllAtOnce(ch, movement, step, to_move) ==
    LET news == {NewCuboid(movement, step, cuboid) : cuboid \in to_move}
        olds == {GetItem(ch, new.location) : new \in news}
    IN  (ch \ olds) \cup
        {[GetItem(ch, new.location) EXCEPT !.facings = new.facings,
                                           !.children = Range(new.facings)] : new \in news}

\* C17: in every reachable state and for every single-layer or slice move,
\* the loop over to_move gives the same Cube in whatever order it meets the
\* Cuboids: the Cube in which each entry is written from the pre-move state
C17_CommitOrderFree ==
    \A X \in SingleFaces : \A step \in {Turn(X), TurnInv(X), TurnDouble(X)} :
        LET movement == Movement(step)
            to_move == ToMove(children, step)
            once == AllAtOnce(children, movement, step, to_move)
        IN  \A order \in Orders(to_move) :
                Commit(children, movement, step, order) = Outcome(once, "none")

\* a scrambled state where the U layer has 9 Cuboids to move, 10 orders are
\* tried, and the move changes the Cube
C17_Witness ==
    /\ Scrambled
    /\ LET step == Turn("U")
           to_move == ToMove(children, step)
       IN  /\ Cardinality(to_move) = 9
           /\ Cardinality(Orders(to_move)) = 10
           /\ AllAtOnce(children, Movement(step), step, to_move) # children
           /\ SingleLayer(children, step).children =
                 AllAtOnce(children, Movement(step), step, to_move)

\* after is before turned a quarter turn clockwise: the cell at row r and
\* column c has gone to row c and column 2 - r
RotatedClockwise(before, after) ==
    \A r \in 0..2 : \A c \in 0..2 : after[c][2 - r] = before[r][c]

\* the nine Squares of a grid as a bag: the number of cells of each colour
GridBag(grid) ==
    [col \in Colours |->
        Cardinality({rc \in (0..2) \X (0..2) : grid[rc[1]][rc[2]] = col})]

\* C18: in every reachable state and for each outer layer X, get_face(X)
\* after a clockwise quarter turn of X is get_face(X) before it turned a
\* quarter turn clockwise; the centre cell and the bag of its nine Squares stay
C18_FaceGridRotates ==
    \A X \in Faces :
        LET out == PerformStep(children, Turn(X))
            before == GetFace(children, X).value
            after == GetFace(out.children, X).value
        IN  /\ out.raised = "none"
            /\ RotatedClockwise(before, after)
            /\ after[1][1] = before[1][1]
            /\ GridBag(after) = GridBag(before)

\* a scrambled state where, for each outer layer, the grid after the turn
\* is neither the grid before nor that grid turned the other way
C18_Witness ==
    /\ Scrambled
    /\ \A X \in Faces :
          LET before == GetFace(children, X).value
              after == GetFace(PerformStep(children, Turn(X)).children, X).value
          IN  /\ RotatedClockwise(before, after)
              /\ after # before
              /\ ~RotatedClockwise(after, before)

\* the kind of each piece with the set of colours has_colour finds on it
Combinations(ch) == {<<c.type, c.children>> : c \in ch}

\* C19: in every reachable state the 26 pieces carry the 26 combinations of
\* kind and colours of the solved Cube, each once, the colours has_colour
\* reads are those of the piece's facings, and has_colour finds exactly 9
\* pieces for each of the six colours
C19_PiecesRigid ==
    /\ Cardinality(children) = 26
    /\ Combinations(children) = Combinations(SolvedCube)
    /\ Cardinality(Combinations(children)) = 26
    /\ \A c \in children : c.children = Range(c.facings)
    /\ \A col \in Colours : Cardinality(HasColour(children, col)) = 9

\* a scrambled state where no corner or edge shows the facings of a piece
\* of the solved Cube, yet the Cube still has the 26 combinations
C19_Witness ==
    /\ Scrambled
    /\ LET solved == SolvedCube
       IN  \A c \in children : c.type # "centre" => c \notin solved
    /\ Combinations(children) = Combinations(SolvedCube)
    /\ \A col \in Colours : Cardinality(HasColour(children, col)) = 9

\* the colours of the nine cells of a grid
GridColours(grid) == {grid[r][c] : r \in 0..2, c \in 0..2}

\* C20: after any sequence of whole-cube moves x, y, z (plain, inverse or
\* double) performed on the solved Cube, get_face shows nine Squares of one
\* colour on each of the six faces, and six different colours
C20_RotationsKeepFaces ==
    /\ raised = "none"
    /\ \A X \in Faces :
          LET face == GetFace(children, X)
          IN  /\ face.raised = "none"
              /\ Cardinality(GridColours(face.value)) = 1
              /\ GridColours(face.value) \subseteq Colours
    /\ Cardinality(UNION {GridColours(GetFace(children, X).value) : X \in Faces}) = 6

\* three whole-cube moves have been performed and no face shows the colour
\* it shows on the solved Cube
C20_Witness ==
    /\ ncalls >= 3
    /\ \A X \in Faces : colours[X] \notin GridColours(GetFace(children, X).value)
    /\ \A X \in Faces : Cardinality(GridColours(GetFace(children, X).value)) = 1

====
